---- MODULE Spec2Model ----
(***************************************************************************)
(* Model of src/dashboard.py: a Streamlit script that every session runs   *)
(* top to bottom on each interaction.  The script calls load_data(), which *)
(* is memoised process-wide by @st.cache_data(ttl=600); on a miss          *)
(* load_data submits one Athena query, polls it, downloads its CSV output  *)
(* from S3 and parses it.  The last statement of the script clears the     *)
(* cache when the run was triggered by the 'Rafraichir' button.            *)
(*                                                                         *)
(* The decorator is modelled by its contract as the script uses it: a      *)
(* lookup keyed by the (argument-less) call, the function body on a miss,  *)
(* and a write of whatever the body returned.  The script adds no lock of  *)
(* its own, so sessions interleave at every remote call.                   *)
(***************************************************************************)
EXTENDS Integers, Sequences, FiniteSets, TLC

\* ------------------------------------------------------------------ bounds
MaxJobs == 2       \* query executions the engine accepts in one exploration
MaxNow == 700      \* last instant of the wall clock, in seconds
TickLen == 300     \* seconds the clock advances in one step
MaxPolls == 2      \* the per-attempt status-check counter saturates here
MaxRows == 2       \* rows of a frame whose KPIs are computed

\* ------------------------------------------------------- program constants
TTL == 600

Sessions == {"s1", "s2"}

Terminal == {"SUCCEEDED", "FAILED", "CANCELLED"}
NonTerminal == {"QUEUED", "RUNNING"}

\* where a run finds its AWS keys: st.secrets, the local CSV file, or neither
KeySources == {"secrets", "csv", "csv_unreadable", "csv_no_columns"}

\* the clients were built (lines 32-53)
Resolved(keys) == keys \in {"secrets", "csv"}

\* variant: the except clause of the key loading does not stop the run
HaltsNever(keys) == FALSE

\* the run ends in the except clause of the key loading (lines 57-61)
Halts(keys) == ~Resolved(keys)

NoEntry == [absent |-> TRUE]

\* no status check and no object fetch was made
NoRequest == [status |-> 0, object |-> 0]
NoReason == "<none>"
Reasons == {"Query exceeded limit", NoReason}

\* ------------------------------------------------------- remote CSV objects
Header == <<"Jour", "Campagne", "eventType", "Total">>

\* The table ses_logs, as batches of n events with the same day, campaign tag
\* and event type; the same triple may appear in several batches.
TableGood ==
    << [Jour |-> "2024-01-01", Campagne |-> "X", eventType |-> "Send", n |-> 60],
       [Jour |-> "2024-01-01", Campagne |-> "X", eventType |-> "Open", n |-> 40],
       [Jour |-> "2024-01-01", Campagne |-> "X", eventType |-> "Send", n |-> 40] >>

TableOther ==
    << [Jour |-> "2024-01-02", Campagne |-> "Y", eventType |-> "Open", n |-> 4],
       [Jour |-> "2024-01-02", Campagne |-> "Y", eventType |-> "Click", n |-> 2],
       [Jour |-> "2024-01-02", Campagne |-> "Y", eventType |-> "Open", n |-> 3] >>

TableNoRows == << >>

\* the grouping columns of a batch (SELECT items 1, 2, 3)
Triple(b) == << b.Jour, b.Campagne, b.eventType >>

RECURSIVE Distinct(_)
\* the elements of a sequence, each once, in the order of first appearance
Distinct(seq) ==
    IF seq = << >> THEN << >>
    ELSE << Head(seq) >>
         \o Distinct(SelectSeq(Tail(seq), LAMBDA k : k # Head(seq)))

RECURSIVE CountOf(_, _)
\* COUNT(*) of the group k
CountOf(tab, k) ==
    IF tab = << >> THEN 0
    ELSE (IF Triple(Head(tab)) = k THEN Head(tab).n ELSE 0)
         + CountOf(Tail(tab), k)

\* variant: the query has no GROUP BY and returns one row per batch
GroupByNone(tab) ==
    [i \in 1..Len(tab) |->
        << tab[i].Jour, tab[i].Campagne, tab[i].eventType, tab[i].n >>]

\* the rows the query returns (lines 66-76): GROUP BY 1, 2, 3 with COUNT(*)
GroupBy(tab) ==
    LET ks == Distinct([i \in 1..Len(tab) |-> Triple(tab[i])])
    IN [i \in 1..Len(ks) |->
           << ks[i][1], ks[i][2], ks[i][3], CountOf(tab, ks[i]) >>]

\* the object the engine writes for a query result
Csv(rows) == << Header >> \o rows

\* Send 100 and Open 40 for campaign X
BodyGood == Csv(GroupBy(TableGood))

\* Open 7 and Click 2 for campaign Y
BodyOther == Csv(GroupBy(TableOther))

BodyNoRows == Csv(GroupBy(TableNoRows))

BodyMalformed ==
    << Header,
       <<"2024-01-01", "X", "Send", 100>>,
       <<"2024-01-01", "X", "Open", 40, "extra">> >>

Bodies == {BodyGood, BodyOther, BodyNoRows, BodyMalformed}

\* ------------------------------------------------------------- data frames
EmptyDataFrame == [columns |-> <<>>, rows |-> <<>>]

\* variant: a frame with columns and no rows does not count as empty
IsEmptyNoColumns(d) == Len(d.columns) = 0

\* df.empty (line 113)
IsEmpty(d) == Len(d.columns) = 0 \/ Len(d.rows) = 0

Pad(line, n) == [i \in 1..n |-> IF i <= Len(line) THEN line[i] ELSE "NaN"]

\* variant: a line with too many fields is dropped instead of rejected
ReadCsvSkipBad(body) ==
    IF Len(body) = 0
    THEN [ok |-> FALSE, exc |-> "EmptyDataError", df |-> EmptyDataFrame]
    ELSE [ok |-> TRUE, exc |-> "",
          df |-> [columns |-> body[1],
                  rows |-> SelectSeq(Tail(body),
                                     LAMBDA l : Len(l) <= Len(body[1]))]]

\* pd.read_csv: the first line names the columns; a line with more fields
\* than the header is a parser error, a shorter one is filled with NaN.
ReadCsv(body) ==
    IF Len(body) = 0
    THEN [ok |-> FALSE, exc |-> "EmptyDataError", df |-> EmptyDataFrame]
    ELSE IF \E i \in 2..Len(body) : Len(body[i]) > Len(body[1])
    THEN [ok |-> FALSE, exc |-> "ParserError", df |-> EmptyDataFrame]
    ELSE [ok |-> TRUE, exc |-> "",
          df |-> [columns |-> body[1],
                  rows |-> [i \in 1..(Len(body) - 1) |->
                               Pad(body[i + 1], Len(body[1]))]]]

\* ------------------------------------------------------------------- state
VARIABLES
    now,          \* wall clock
    cache,        \* the one entry of load_data's cache, or NoEntry
    submitted,    \* number of query executions the engine has accepted
    jobs,         \* query id -> execution, for the executions still polled
    pc,           \* per session: position of the running script
    df,           \* per session: value load_data returned in this run
    query_id,     \* per session: id returned by start_query_execution, 0 if none
    status,       \* per session: State of the last get_query_execution
    msgs,         \* per session: st.error messages of the load attempt
    obj,          \* per session: body get_object returned, <<>> if none
    log,          \* per session: remote calls and cache store of the attempt
    polls,        \* per session: status checks of the attempt (saturating)
    sleeps,       \* per session: sleeps of the attempt (saturating)
    clicked,      \* per session: this run was triggered by the button
    buttonShown,  \* per session: the button is on the page
    expiredMiss,  \* per session: the attempt found an expired entry
    keysFailed,   \* per session: the keys of the last run could not be loaded
    requested,    \* per session: the execution id sent with the last status
                  \* check and the one in the key of the object fetched
    firstServed,  \* first result load_data returned since the cache was
                  \* cleared or that result's TTL window ended
    afterClear,   \* the cache was cleared and load_data not called since
    frame,        \* KPI computation: the non-empty frame being rendered
    df_filtered,  \* KPI computation: its rows after the campaign filter
    kpi           \* KPI computation: the totals and rates shown

\* the state of the runs and of the cache
runVars == << now, cache, submitted, jobs, pc, df, query_id, status, msgs, obj,
              log, polls, sleeps, clicked, buttonShown, expiredMiss,
              keysFailed, requested, firstServed, afterClear >>

\* the state of the KPI computation
kpiVars == << frame, df_filtered, kpi >>

vars == << now, cache, submitted, jobs, pc, df, query_id, status, msgs, obj,
           log, polls, sleeps, clicked, buttonShown, expiredMiss, keysFailed,
           requested, firstServed, afterClear, frame, df_filtered, kpi >>

NoDf == [none |-> TRUE]
NoResult == [none |-> TRUE]

NoFrame == << >>
NoKpi == [none |-> TRUE]

\* no script has run yet
NoRunYet ==
    /\ now = 0
    /\ cache = NoEntry
    /\ submitted = 0
    /\ jobs = << >>
    /\ pc = [s \in Sessions |-> "idle"]
    /\ df = [s \in Sessions |-> NoDf]
    /\ query_id = [s \in Sessions |-> 0]
    /\ status = [s \in Sessions |-> "none"]
    /\ msgs = [s \in Sessions |-> <<>>]
    /\ obj = [s \in Sessions |-> <<>>]
    /\ log = [s \in Sessions |-> <<>>]
    /\ polls = [s \in Sessions |-> 0]
    /\ sleeps = [s \in Sessions |-> 0]
    /\ clicked = [s \in Sessions |-> FALSE]
    /\ buttonShown = [s \in Sessions |-> FALSE]
    /\ expiredMiss = [s \in Sessions |-> FALSE]
    /\ keysFailed = [s \in Sessions |-> FALSE]
    /\ requested = [s \in Sessions |-> NoRequest]
    /\ firstServed = NoResult
    /\ afterClear = FALSE

Init ==
    /\ NoRunYet
    /\ frame = NoFrame
    /\ df_filtered = NoFrame
    /\ kpi = NoKpi

\* ----------------------------------------------------------------- helpers
Min(a, b) == IF a < b THEN a ELSE b

Fresh == cache # NoEntry /\ now < cache.storedAt + TTL

\* variant: a run started by the button clears the cache before the lookup
HitUnlessClicked(click) == Fresh /\ ~click

\* the decorator's lookup at line 111: the button of line 160 is evaluated
\* after it, so a run started by the button finds the entry like any other
Hit(click) == Fresh

\* variant: a value written over an entry inherits that entry's age
WriteResultKeepTtl(value) ==
    [value |-> value,
     storedAt |-> IF cache # NoEntry THEN cache.storedAt ELSE now]

\* what st.cache_data keeps for a returned value
WriteResult(value) == [value |-> value, storedAt |-> now]

\* a result as a caller sees it: the rows and the time they were fetched
Result(value, at) == [value |-> value, fetchedAt |-> at]

InWindow(r) == r # NoResult /\ now < r.fetchedAt + TTL

Serve(r) == IF InWindow(firstServed) THEN firstServed ELSE r

\* variant: the loop does not break on CANCELLED
BreakNoCancelled(st) == st \in {"SUCCEEDED", "FAILED"}

\* variant: the loop stops waiting for an execution that is still queued
BreakOrQueued(st) == st \in Terminal \cup {"QUEUED"}

\* the loop's break test (line 90)
Break(st) == st \in Terminal

\* variant: the loop sleeps before every status check
SleptBeforeCheck(s, st) == Min(sleeps[s] + 1, MaxPolls)

\* the sleeps made once the iteration that got the response `st` is over
\* (lines 90-92): time.sleep is reached only when the loop did not break
Slept(s, st) ==
    IF Break(st) THEN sleeps[s] ELSE Min(sleeps[s] + 1, MaxPolls)

\* variant: only FAILED takes the else branch
MaterializeUnlessFailed(st) == st # "FAILED"

\* the branch taken after the loop (line 94)
Materialize(st) == st = "SUCCEEDED"

\* variant: a caller joins the execution another session is polling
SharedId ==
    IF \E u \in Sessions : pc[u] = "poll"
    THEN query_id[CHOOSE u \in Sessions : pc[u] = "poll"]
    ELSE submitted + 1

\* the id start_query_execution returns: one the engine never gave before
NewId == submitted + 1

\* variant: the loop asks for the execution submitted last by any session
ExecutionIdLatest(s) ==
    IF submitted \in DOMAIN jobs THEN submitted ELSE query_id[s]

\* the QueryExecutionId argument of get_query_execution (line 88)
ExecutionId(s) == query_id[s]

\* variant: the key is built from the execution submitted last by any session
ObjectKeyLatest(s) == submitted

\* the execution id in the Key argument of get_object (line 95)
ObjectKey(s) == query_id[s]

StateChangeReason(j) ==
    IF jobs[j].reason = NoReason THEN "Raison inconnue" ELSE jobs[j].reason

\* the engine's executions without the one the returning attempt polled
Forget(j) == [k \in DOMAIN jobs \ {j} |-> jobs[k]]

\* load_data returns `value` with the messages `m`; the decorator stores the
\* returned value and the caller continues at the empty-data check.
Return(s, value, m, events) ==
    /\ df' = [df EXCEPT ![s] = value]
    /\ msgs' = [msgs EXCEPT ![s] = m]
    /\ log' = [log EXCEPT ![s] = log[s] \o events \o <<"store">>]
    /\ cache' = WriteResult(value)
    /\ firstServed' = Serve(Result(value, now))
    /\ jobs' = Forget(query_id[s])
    /\ pc' = [pc EXCEPT ![s] = "display"]

\* variant: after an exception the attempt submits the query again
ExceptRetry(s, e, events) ==
    IF query_id[s] = 0
    THEN Return(s, EmptyDataFrame, <<"Erreur Technique", e>>, events)
    ELSE /\ log' = [log EXCEPT ![s] = log[s] \o events \o <<"submit">>]
         /\ jobs' = [jobs EXCEPT ![query_id[s]] =
                                    [state |-> "QUEUED", reason |-> NoReason]]
         /\ pc' = [pc EXCEPT ![s] = "poll"]
         /\ UNCHANGED << df, msgs, cache, firstServed >>

\* the except clause of load_data (lines 103-105)
Except(s, e, events) ==
    Return(s, EmptyDataFrame, <<"Erreur Technique", e>>, events)

\* ----------------------------------------------------------------- actions
\* A script run starts (lines 1-85).  The keys are loaded; if that fails the
\* run stops there.  Otherwise the run reaches load_data(), whose decorator
\* answers from the cache or lets the body run; the body starts with
\* start_query_execution, which returns a new id or raises.
StartRun(s, click, keys) ==
    /\ pc[s] = "idle"
    /\ click => buttonShown[s]
    /\ buttonShown' = [buttonShown EXCEPT ![s] = FALSE]
    /\ keysFailed' = [keysFailed EXCEPT ![s] = ~Resolved(keys)]
    /\ IF Halts(keys)
       THEN UNCHANGED << cache, submitted, jobs, pc, df, query_id, msgs, log,
                         clicked, expiredMiss, firstServed, afterClear >>
       ELSE /\ clicked' = [clicked EXCEPT ![s] = click]
            /\ afterClear' = FALSE
            /\ IF Hit(click)
               THEN /\ df' = [df EXCEPT ![s] = cache.value]
                    /\ firstServed' = Serve(Result(cache.value, cache.storedAt))
                    /\ pc' = [pc EXCEPT ![s] = "display"]
                    /\ UNCHANGED << cache, submitted, jobs, query_id, msgs,
                                    log, expiredMiss >>
               ELSE /\ expiredMiss' = [expiredMiss EXCEPT
                                         ![s] = (cache # NoEntry)]
                    /\ \/ /\ submitted < MaxJobs
                          /\ submitted' = submitted + 1
                          /\ jobs' = [k \in DOMAIN jobs \cup {NewId} |->
                                        IF k \in DOMAIN jobs THEN jobs[k]
                                        ELSE [state |-> "QUEUED",
                                              reason |-> NoReason]]
                          /\ query_id' = [query_id EXCEPT ![s] = NewId]
                          /\ log' = [log EXCEPT ![s] = <<"submit">>]
                          /\ pc' = [pc EXCEPT ![s] = "poll"]
                          /\ UNCHANGED << cache, df, msgs, firstServed >>
                       \/ /\ Except(s, "ClientError", <<"submit">>)
                          /\ UNCHANGED << submitted, query_id >>
    /\ UNCHANGED << now, status, obj, polls, sleeps, requested >>
    /\ UNCHANGED kpiVars

\* one iteration of the while loop (lines 88-92) and, after a terminal
\* state other than SUCCEEDED, the else branch (lines 98-101)
PollOk(s) ==
    /\ pc[s] = "poll"
    /\ polls' = [polls EXCEPT ![s] = Min(polls[s] + 1, MaxPolls)]
    /\ requested' = [requested EXCEPT ![s].status = ExecutionId(s)]
    /\ LET ev == IF polls[s] = 0 THEN <<"poll">> ELSE <<>>
           st == jobs[ExecutionId(s)].state
       IN /\ status' = [status EXCEPT ![s] = st]
          /\ sleeps' = [sleeps EXCEPT ![s] = Slept(s, st)]
          /\ IF Break(st)
             THEN IF Materialize(st)
                  THEN /\ pc' = [pc EXCEPT ![s] = "fetch"]
                       /\ log' = [log EXCEPT ![s] = log[s] \o ev]
                       /\ UNCHANGED << cache, jobs, df, msgs, firstServed >>
                  ELSE Return(s, EmptyDataFrame,
                              <<"Erreur Athena", st,
                                StateChangeReason(ExecutionId(s))>>, ev)
             ELSE /\ log' = [log EXCEPT ![s] = log[s] \o ev]
                  /\ UNCHANGED << pc, cache, jobs, df, msgs, firstServed >>
    /\ UNCHANGED << now, submitted, query_id, obj, clicked, buttonShown,
                    expiredMiss, keysFailed, afterClear >>
    /\ UNCHANGED kpiVars

\* get_query_execution raises (line 88): the except clause runs
PollRaise(s) ==
    /\ pc[s] = "poll"
    /\ polls' = [polls EXCEPT ![s] = Min(polls[s] + 1, MaxPolls)]
    /\ requested' = [requested EXCEPT ![s].status = ExecutionId(s)]
    /\ Except(s, "ClientError", IF polls[s] = 0 THEN <<"poll">> ELSE <<>>)
    /\ UNCHANGED << now, submitted, query_id, status, obj, sleeps, clicked,
                    buttonShown, expiredMiss, keysFailed, afterClear >>
    /\ UNCHANGED kpiVars

Poll(s) == PollOk(s) \/ PollRaise(s)

\* get_object and read_csv (lines 95-97): the object keyed by the job id is
\* one of Bodies, or the fetch raises (no such key, access denied, I/O)
Fetch(s) ==
    /\ pc[s] = "fetch"
    /\ requested' = [requested EXCEPT ![s].object = ObjectKey(s)]
    /\ \/ \E body \in Bodies :
             LET r == ReadCsv(body)
             IN /\ obj' = [obj EXCEPT ![s] = body]
                /\ IF r.ok
                   THEN Return(s, r.df, <<>>, <<"fetch">>)
                   ELSE Except(s, r.exc, <<"fetch">>)
       \/ /\ Except(s, "NoSuchKey", <<"fetch">>)
          /\ UNCHANGED obj
    /\ UNCHANGED << now, submitted, query_id, status, polls, sleeps, clicked,
                    buttonShown, expiredMiss, keysFailed, afterClear >>
    /\ UNCHANGED kpiVars

\* the rest of the script (lines 113-161): stop on an empty frame, else
\* render, show the button and clear the cache if the button caused the run
Display(s) ==
    /\ pc[s] = "display"
    /\ IF IsEmpty(df[s])
       THEN /\ buttonShown' = [buttonShown EXCEPT ![s] = FALSE]
            /\ UNCHANGED << cache, firstServed, afterClear >>
       ELSE /\ buttonShown' = [buttonShown EXCEPT ![s] = TRUE]
            /\ IF clicked[s]
               THEN /\ cache' = NoEntry
                    /\ firstServed' = NoResult
                    /\ afterClear' = TRUE
               ELSE UNCHANGED << cache, firstServed, afterClear >>
    /\ pc' = [pc EXCEPT ![s] = "idle"]
    /\ df' = [df EXCEPT ![s] = NoDf]
    /\ query_id' = [query_id EXCEPT ![s] = 0]
    /\ status' = [status EXCEPT ![s] = "none"]
    /\ msgs' = [msgs EXCEPT ![s] = <<>>]
    /\ obj' = [obj EXCEPT ![s] = <<>>]
    /\ log' = [log EXCEPT ![s] = <<>>]
    /\ polls' = [polls EXCEPT ![s] = 0]
    /\ sleeps' = [sleeps EXCEPT ![s] = 0]
    /\ clicked' = [clicked EXCEPT ![s] = FALSE]
    /\ expiredMiss' = [expiredMiss EXCEPT ![s] = FALSE]
    /\ requested' = [requested EXCEPT ![s] = NoRequest]
    /\ UNCHANGED << now, submitted, jobs, keysFailed >>
    /\ UNCHANGED kpiVars

\* the query engine advances an execution
EngineStep(j) ==
    /\ j \in DOMAIN jobs
    /\ \/ /\ jobs[j].state = "QUEUED"
          /\ jobs' = [jobs EXCEPT ![j].state = "RUNNING"]
       \/ /\ jobs[j].state = "RUNNING"
          /\ jobs' = [jobs EXCEPT ![j].state = "SUCCEEDED"]
       \/ /\ jobs[j].state = "RUNNING"
          /\ \E r \in Reasons :
                jobs' = [jobs EXCEPT ![j] = [state |-> "FAILED", reason |-> r]]
       \/ /\ jobs[j].state \in NonTerminal
          /\ jobs' = [jobs EXCEPT ![j].state = "CANCELLED"]
    /\ UNCHANGED << now, cache, submitted, pc, df, query_id, status, msgs,
                    obj, log, polls, sleeps, clicked, buttonShown, expiredMiss,
                    keysFailed, requested, firstServed, afterClear >>
    /\ UNCHANGED kpiVars

\* time passes
Tick ==
    /\ now + TickLen <= MaxNow
    /\ now' = now + TickLen
    /\ firstServed' = IF firstServed # NoResult
                         /\ now + TickLen < firstServed.fetchedAt + TTL
                      THEN firstServed ELSE NoResult
    /\ UNCHANGED << cache, submitted, jobs, pc, df, query_id, status, msgs,
                    obj, log, polls, sleeps, clicked, buttonShown, expiredMiss,
                    keysFailed, requested, afterClear >>
    /\ UNCHANGED kpiVars

Next ==
    \/ \E s \in Sessions : \E click \in BOOLEAN : \E keys \in KeySources :
          StartRun(s, click, keys)
    \/ \E s \in Sessions : Poll(s)
    \/ \E s \in Sessions : Fetch(s)
    \/ \E s \in Sessions : Display(s)
    \/ \E j \in 1..MaxJobs : EngineStep(j)
    \/ Tick

Spec == Init /\ [][Next]_vars

TypeOK ==
    /\ now \in 0..MaxNow
    /\ submitted \in 0..MaxJobs
    /\ \A s \in Sessions : pc[s] \in {"idle", "poll", "fetch", "display"}

\* The engine keeps working on every execution it accepted and a session
\* that is not raising keeps iterating its loop.
Fairness ==
    /\ \A s \in Sessions : WF_vars(PollOk(s))
    /\ \A j \in 1..MaxJobs : WF_vars(EngineStep(j))

\* The polling loop reads no clock: its termination is checked with the
\* clock held, every other step as in Next.
LiveNext ==
    \/ \E s \in Sessions : \E click \in BOOLEAN : \E keys \in KeySources :
          StartRun(s, click, keys)
    \/ \E s \in Sessions : Poll(s)
    \/ \E s \in Sessions : Fetch(s)
    \/ \E s \in Sessions : Display(s)
    \/ \E j \in 1..MaxJobs : EngineStep(j)

LiveSpec == Init /\ [][LiveNext]_vars /\ Fairness

\* ------------------------------------------------------- KPI computation
\* The totals and rates of lines 124-143 are a function of the frame and of
\* the campaign chosen in the sidebar; they are computed here for every
\* small frame.
EventTypes == {"Send", "Open", "Click", "Bounce"}
Campagnes == {"X", "Y"}
TotalValues == {0, 1, 3, 40, 100}

FrameRows == [Campagne : Campagnes, eventType : EventTypes, Total : TotalValues]

\* the non-empty frames of at most MaxRows rows
Frames == UNION {[1..n -> FrameRows] : n \in 1..MaxRows}

\* the options of the selectbox (line 125)
Choix(d) == {"Toutes"} \cup {d[i].Campagne : i \in 1..Len(d)}

\* lines 128-131
FilterBy(d, choix) ==
    IF choix # "Toutes"
    THEN SelectSeq(d, LAMBDA r : r.Campagne = choix)
    ELSE d

RECURSIVE SumTotal(_, _)
\* kpi_df.get(ev, 0) of line 134's groupby('eventType')['Total'].sum()
SumTotal(d, ev) ==
    IF d = << >> THEN 0
    ELSE (IF Head(d).eventType = ev THEN Head(d).Total ELSE 0)
         + SumTotal(Tail(d), ev)

\* n / d rounded to the nearest integer, halves to the even one (round())
RoundHalfEven(n, d) ==
    LET q == n \div d
        r == n % d
    IN IF 2 * r < d THEN q
       ELSE IF 2 * r > d THEN q + 1
       ELSE IF q % 2 = 0 THEN q ELSE q + 1

\* variant: the guard tests the numerator
TauxGuardNum(num, den) ==
    IF num > 0
    THEN [rate |-> IF den > 0 THEN RoundHalfEven(num * 10000, den) ELSE 0,
          divided |-> TRUE, by |-> den]
    ELSE [rate |-> 0, divided |-> FALSE, by |-> den]

\* round(num / den * 100, 2) if den > 0 else 0 (lines 142-143); the rate is
\* kept in hundredths of a percent, with the division made, if any
Taux(num, den) ==
    IF den > 0
    THEN [rate |-> RoundHalfEven(num * 10000, den),
          divided |-> TRUE, by |-> den]
    ELSE [rate |-> 0, divided |-> FALSE, by |-> den]

KpiInit ==
    /\ NoRunYet
    /\ frame \in Frames
    /\ df_filtered = NoFrame
    /\ kpi = NoKpi

\* the sidebar filter (lines 124-131)
Filter(choix) ==
    /\ df_filtered = NoFrame
    /\ choix \in Choix(frame)
    /\ df_filtered' = FilterBy(frame, choix)
    /\ UNCHANGED << frame, kpi >>
    /\ UNCHANGED runVars

\* the totals and the rates (lines 134-143)
Kpis ==
    /\ df_filtered # NoFrame
    /\ kpi = NoKpi
    /\ LET total_sent == SumTotal(df_filtered, "Send")
           total_open == SumTotal(df_filtered, "Open")
           total_click == SumTotal(df_filtered, "Click")
       IN kpi' = [total_sent |-> total_sent,
                  total_open |-> total_open,
                  total_click |-> total_click,
                  taux_ouverture |-> Taux(total_open, total_sent),
                  taux_clic |-> Taux(total_click, total_open)]
    /\ UNCHANGED << frame, df_filtered >>
    /\ UNCHANGED runVars

KpiNext ==
    \/ \E choix \in {"Toutes"} \cup Campagnes : Filter(choix)
    \/ Kpis

KpiSpec == KpiInit /\ [][KpiNext]_vars

\* ------------------------------------------------------------- vocabulary
\* s calls load_data in this step / load_data returns to s in this step
Called(s) == pc[s] = "idle" /\ pc'[s] # "idle"

Returned(s) == pc[s] # "display" /\ pc'[s] = "display"

Count(seq, e) == Cardinality({i \in 1..Len(seq) : seq[i] = e})

Rank(e) ==
    CASE e = "submit" -> 1
      [] e = "poll" -> 2
      [] e = "fetch" -> 3
      [] e = "store" -> 4

Ordered(seq) == \A i \in 1..(Len(seq) - 1) : Rank(seq[i]) < Rank(seq[i + 1])

\* ------------------------------------------------------------------ claims

\* C1 (as stated): a call of load_data made inside the TTL window of a result
\* an earlier call returned, with no cache clear in between, returns that
\* same result (rows and fetch time) and makes no remote call.
C1_CacheFreshness ==
    [][\A s \in Sessions :
          (Called(s) /\ InWindow(firstServed)) =>
             /\ pc'[s] = "display"
             /\ log'[s] = <<>>
             /\ submitted' = submitted
             /\ Result(df'[s], cache.storedAt) = firstServed]_vars

\* C2 (as stated): when the polled job is FAILED or CANCELLED with a reason,
\* load_data shows that reason and leaves the cache as it was.
C2_FailedJobNotCached ==
    [][\A s \in Sessions :
          (/\ pc[s] = "poll"
           /\ Returned(s)
           /\ status'[s] \in {"FAILED", "CANCELLED"}
           /\ jobs[query_id[s]].reason # NoReason) =>
             /\ msgs'[s] = <<"Erreur Athena", status'[s],
                             jobs[query_id[s]].reason>>
             /\ cache' = cache]_vars

\* C3 (as stated): when the job SUCCEEDED and the output object cannot be
\* fetched, the attempt ends with an error and the cache is unchanged.
C3_MissingObjectNotCached ==
    [][\A s \in Sessions :
          (/\ pc[s] = "fetch"
           /\ Returned(s)
           /\ obj'[s] = <<>>) =>
             /\ msgs'[s] = <<"Erreur Technique", "NoSuchKey">>
             /\ cache' = cache]_vars

\* C4 (as stated): the first call of load_data after a cache clear always
\* starts a remote cycle of its own.
C4_InvalidateThenFresh ==
    [][\A s \in Sessions :
          (Called(s) /\ afterClear) =>
             (log'[s] # <<>> /\ log'[s][1] = "submit")]_vars

\* C5: a call of load_data that finds an expired entry has, when it returns,
\* called start_query_execution exactly once, and the cache then holds the
\* value it returns in an entry stored now, which expires TTL from now.
C5_CacheExpiry ==
    [][\A s \in Sessions :
          (Returned(s) /\ expiredMiss'[s]) =>
             /\ Count(log'[s], "submit") = 1
             /\ cache' # NoEntry
             /\ cache'.value = df'[s]
             /\ cache'.storedAt = now
             /\ now < cache'.storedAt + TTL]_vars

C5_Witness ==
    \E s \in Sessions :
       /\ pc[s] = "display"
       /\ expiredMiss[s]
       /\ log[s] = <<"submit", "poll", "fetch", "store">>
       /\ ~IsEmpty(df[s])
       /\ cache = [value |-> df[s], storedAt |-> now]
       /\ now >= TTL

\* C6: under a fair engine and scheduler a session that is polling
\* eventually leaves the loop, and when the loop ends by its break the state
\* it leaves with is terminal and is the one the engine holds for the job.
C6_TerminalConvergence ==
    /\ \A s \in Sessions : (pc[s] = "poll") ~> (pc[s] # "poll")
    /\ [][\A s \in Sessions :
             (pc[s] = "poll" /\ pc'[s] # "poll" /\ status'[s] # status[s]) =>
                /\ status'[s] \in {"SUCCEEDED", "FAILED", "CANCELLED"}
                /\ status'[s] = jobs[query_id[s]].state]_vars

\* terminal on the first check (N = 0) in one session, and after the
\* saturating number of non-terminal responses in the other
C6_Witness ==
    \E s, u \in Sessions :
       /\ pc[s] = "display" /\ polls[s] = 1 /\ sleeps[s] = 0
       /\ status[s] = "CANCELLED"
       /\ pc[u] = "fetch" /\ polls[u] = MaxPolls /\ sleeps[u] >= 1
       /\ status[u] = "SUCCEEDED"

\* C7: a load attempt calls start_query_execution at most once and first,
\* makes no remote call after it has returned, and after a submission error
\* makes no status check and no object fetch.
C7_NoInternalRetry ==
    \A s \in Sessions :
       /\ Count(log[s], "submit") <= 1
       /\ log[s] # <<>> => log[s][1] = "submit"
       /\ Count(log[s], "store") <= 1
       /\ Count(log[s], "store") = 1 =>
             (log[s][Len(log[s])] = "store" /\ pc[s] = "display")
       /\ (msgs[s] # <<>> /\ query_id[s] = 0) =>
             (log[s] = <<"submit", "store">> /\ polls[s] = 0)
       /\ msgs[s] # <<>> => pc[s] = "display"

C7_Witness ==
    \E s, u \in Sessions :
       /\ msgs[s] = <<"Erreur Technique", "ClientError">>
       /\ query_id[s] = 0
       /\ log[s] = <<"submit", "store">>
       /\ msgs[u] = <<"Erreur Technique", "ParserError">>
       /\ log[u] = <<"submit", "poll", "fetch", "store">>

\* C8: when load_data has run its body, it has returned either every row of
\* the object of a job it saw SUCCEEDED, with no error message, or an error
\* message together with the empty frame.
C8_FailuresYieldNoData ==
    \A s \in Sessions :
       (pc[s] = "display" /\ log[s] # <<>>) =>
          \/ /\ msgs[s] = <<>>
             /\ status[s] = "SUCCEEDED"
             /\ obj[s] \in Bodies
             /\ df[s].columns = obj[s][1]
             /\ Len(df[s].rows) = Len(obj[s]) - 1
             /\ \A i \in 1..Len(df[s].rows) : df[s].rows[i] = obj[s][i + 1]
          \/ /\ msgs[s] # <<>>
             /\ df[s] = EmptyDataFrame

C8_Witness ==
    \E s, u \in Sessions :
       /\ pc[s] = "display" /\ msgs[s] = <<>> /\ obj[s] = BodyGood
       /\ Len(df[s].rows) = 2
       /\ pc[u] = "display" /\ obj[u] = BodyMalformed
       /\ msgs[u] = <<"Erreur Technique", "ParserError">>
       /\ df[u] = EmptyDataFrame

\* C9: the events of a load attempt are in the order submit, status checks,
\* fetch, store; an object is fetched only after SUCCEEDED was observed, a
\* status is checked only with a job id, and the cache is written only by a
\* step in which load_data returns.
C9_StrictOrder ==
    /\ [](\A s \in Sessions :
            /\ Ordered(log[s])
            /\ (pc[s] = "fetch" \/ Count(log[s], "fetch") = 1) =>
                  (status[s] = "SUCCEEDED" /\ Count(log[s], "poll") = 1)
            /\ (pc[s] = "poll" \/ Count(log[s], "poll") = 1) =>
                  (query_id[s] # 0 /\ Count(log[s], "submit") = 1))
    /\ [][(cache' # cache /\ cache' # NoEntry) =>
             \E s \in Sessions :
                /\ Returned(s)
                /\ log'[s][Len(log'[s])] = "store"
                /\ Count(log[s], "store") = 0]_vars

C9_Witness ==
    \E s \in Sessions :
       /\ pc[s] = "display"
       /\ log[s] = <<"submit", "poll", "fetch", "store">>
       /\ polls[s] = MaxPolls
       /\ cache = [value |-> df[s], storedAt |-> now]

\* C10: every call of load_data on a cold cache that the engine accepts
\* starts an execution of its own, whose id no other session holds, also
\* while another session's attempt for the same call is in flight.
C10_OwnSubmission ==
    [][\A s \in Sessions :
          (Called(s) /\ ~Fresh /\ pc'[s] = "poll") =>
             /\ submitted' = submitted + 1
             /\ query_id'[s] \in DOMAIN jobs' \ DOMAIN jobs
             /\ \A u \in Sessions \ {s} : query_id[u] # query_id'[s]]_vars

\* both sessions hold a job of their own, submitted in the first TTL window
C10_Witness ==
    /\ \A s \in Sessions : pc[s] = "poll" /\ query_id[s] # 0
    /\ \A s, u \in Sessions : s # u => query_id[s] # query_id[u]
    /\ \A s \in Sessions : ~expiredMiss[s]
    /\ cache = NoEntry
    /\ now < TTL

\* C11: a session whose last run could not load its keys is stopped with no
\* load attempt: it made no submission, no status check and no object
\* fetch, and the step of the failing run changed neither the engine nor the
\* cache.
C11_KeysFailureHalts ==
    /\ [](\A s \in Sessions :
            keysFailed[s] =>
               /\ pc[s] = "idle"
               /\ log[s] = <<>>
               /\ query_id[s] = 0
               /\ polls[s] = 0
               /\ df[s] = NoDf
               /\ ~buttonShown[s])
    /\ [][\A s \in Sessions :
             (~keysFailed[s] /\ keysFailed'[s]) =>
                (submitted' = submitted /\ jobs' = jobs /\ cache' = cache)]_vars

\* the keys fail in a run started by the button while the other session polls
C11_Witness ==
    \E s, u \in Sessions :
       /\ keysFailed[s]
       /\ cache # NoEntry
       /\ ~IsEmpty(cache.value)
       /\ pc[u] = "poll"

\* C12: an attempt fetches the output object at most once; it has fetched it
\* once when it returns after observing SUCCEEDED and never after observing
\* FAILED or CANCELLED; the key of the object fetched holds the id of the
\* execution this attempt submitted, so no two attempts fetch the same object.
C12_MaterializeOncePerJob ==
    /\ \A s \in Sessions :
          /\ Count(log[s], "fetch") <= 1
          /\ Count(log[s], "fetch") = 1 =>
                /\ status[s] = "SUCCEEDED"
                /\ query_id[s] # 0
                /\ requested[s].object = query_id[s]
          /\ Count(log[s], "fetch") = 0 => requested[s].object = 0
          /\ (pc[s] = "display" /\ status[s] = "SUCCEEDED") =>
                Count(log[s], "fetch") = 1
          /\ status[s] \in {"FAILED", "CANCELLED"} =>
                (pc[s] = "display" /\ Count(log[s], "fetch") = 0)
    /\ \A s, u \in Sessions :
          (s # u /\ requested[s].object # 0) =>
             requested[s].object # requested[u].object

\* both sessions returned, one with the object of the first execution and
\* one, after FAILED, without any fetch
C12_Witness ==
    \E s, u \in Sessions :
       /\ pc[s] = "display" /\ pc[u] = "display"
       /\ status[s] = "SUCCEEDED" /\ requested[s].object = 1
       /\ status[u] = "FAILED" /\ requested[u].object = 0
       /\ query_id[u] = 2

\* C14: an execution is polled by one loop only, the loop of the attempt that
\* submitted it: every status check carries the id its own attempt got from
\* the engine, no two sessions hold the same id, and a step makes at most
\* one status check, made by a session that is in its loop.
C14_SequentialPolling ==
    /\ [](\A s \in Sessions :
            /\ requested[s].status # 0 =>
                  (requested[s].status = query_id[s] /\ polls[s] > 0)
            /\ pc[s] \in {"poll", "fetch"} => query_id[s] \in 1..submitted
            /\ \A u \in Sessions :
                  (u # s /\ query_id[s] # 0) => query_id[u] # query_id[s])
    /\ [][\A s \in Sessions :
             polls'[s] > polls[s] =>
                /\ pc[s] = "poll"
                /\ requested'[s].status = query_id[s]
                /\ \A u \in Sessions : u # s => polls'[u] = polls[u]]_vars

\* both sessions are in their loops, each after a status check of its own
\* execution
C14_Witness ==
    \E s, u \in Sessions :
       /\ pc[s] = "poll" /\ pc[u] = "poll"
       /\ requested[s].status = 1
       /\ requested[u].status = 2
       /\ sleeps[s] = 2

Abs(x) == IF x < 0 THEN 0 - x ELSE x

\* C13 as stated: each rate is exactly numerator / denominator * 100
C13_RatesExact ==
    kpi # NoKpi =>
       /\ kpi.total_sent > 0 =>
             kpi.taux_ouverture.rate * kpi.total_sent = kpi.total_open * 10000
       /\ kpi.total_open > 0 =>
             kpi.taux_clic.rate * kpi.total_open = kpi.total_click * 10000

\* C13 (amended): the totals are the sums over the filtered rows; the open
\* rate is total Open / total Send * 100 rounded to two decimals when total
\* Send > 0 (40.00 for Send = 100, Open = 40) and 0 otherwise; the click rate
\* is total Click / total Open * 100 rounded to two decimals when total
\* Open > 0 and 0 otherwise; no division has a zero denominator.
C13_RatesRounded ==
    kpi # NoKpi =>
       LET sent == SumTotal(df_filtered, "Send")
           open == SumTotal(df_filtered, "Open")
           click == SumTotal(df_filtered, "Click")
           ouverture == kpi.taux_ouverture
           clic == kpi.taux_clic
       IN /\ kpi.total_sent = sent /\ kpi.total_open = open
          /\ kpi.total_click = click
          /\ sent > 0 =>
                2 * Abs(ouverture.rate * sent - open * 10000) <= sent
          /\ sent = 0 => ouverture.rate = 0
          /\ open > 0 => 2 * Abs(clic.rate * open - click * 10000) <= open
          /\ open = 0 => clic.rate = 0
          /\ (sent = 100 /\ open = 40) => ouverture.rate = 4000
          /\ ouverture.divided => ouverture.by > 0
          /\ clic.divided => clic.by > 0
          /\ ouverture.divided = (sent > 0)
          /\ clic.divided = (open > 0)

\* the frame has Send rows but the filter leaves none of them, only an Open
\* row: the open rate is 0 without a division
C13_Witness ==
    /\ kpi # NoKpi
    /\ Len(df_filtered) < Len(frame)
    /\ SumTotal(frame, "Send") = 100
    /\ kpi.total_sent = 0
    /\ kpi.total_open = 3
    /\ kpi.taux_ouverture = [rate |-> 0, divided |-> FALSE, by |-> 0]
    /\ kpi.taux_clic = [rate |-> 0, divided |-> TRUE, by |-> 3]

\* the frame has no two rows with the same (Jour, Campagne, eventType)
UniqueTriples(d) ==
    \A i, j \in 1..Len(d.rows) :
       i # j => << d.rows[i][1], d.rows[i][2], d.rows[i][3] >>
                # << d.rows[j][1], d.rows[j][2], d.rows[j][3] >>

\* C15: the row set in the cache and every row set load_data returned have
\* no two rows with the same (day, campaign, event type).
C15_RowUniqueness ==
    /\ cache # NoEntry => UniqueTriples(cache.value)
    /\ \A s \in Sessions : df[s] # NoDf => UniqueTriples(df[s])

\* a result of two rows, computed from a table that holds one of the triples
\* in two batches, is in the cache and was returned to a session
C15_Witness ==
    \E s \in Sessions :
       /\ cache # NoEntry
       /\ cache.value.rows = << <<"2024-01-01", "X", "Send", 100>>,
                                <<"2024-01-01", "X", "Open", 40>> >>
       /\ df[s] = cache.value
       /\ obj[s] = BodyGood
       /\ Len(TableGood) > Len(cache.value.rows)

\* C16: a session leaves its polling loop only in a step where the engine
\* reports a terminal state or the status check raises, whatever the number
\* of checks made and the time passed; while it polls, its execution stays
\* with the engine, and no step of the script changes an execution's state
\* (no cancellation).  So while the engine reports QUEUED or RUNNING and no
\* check raises, the attempt does not return.
C16_UnboundedWait ==
    /\ [](\A s \in Sessions : pc[s] = "poll" => query_id[s] \in DOMAIN jobs)
    /\ [][\A s \in Sessions :
             (pc[s] = "poll" /\ pc'[s] # "poll") =>
                \/ /\ status'[s] \in Terminal
                   /\ jobs[query_id[s]].state = status'[s]
                \/ msgs'[s] = <<"Erreur Technique", "ClientError">>]_vars
    /\ [][\A j \in DOMAIN jobs :
             /\ (j \in DOMAIN jobs' /\ jobs'[j] # jobs[j]) =>
                   (pc' = pc /\ polls' = polls /\ log' = log)
             /\ j \notin DOMAIN jobs' =>
                   \E s \in Sessions : query_id[s] = j /\ Returned(s)]_vars

\* a session is still in its loop after the full TTL has passed and after as
\* many checks as the counter can hold, its execution not finished
C16_Witness ==
    \E s \in Sessions :
       /\ pc[s] = "poll"
       /\ polls[s] = MaxPolls
       /\ sleeps[s] = MaxPolls
       /\ now >= TTL
       /\ jobs[query_id[s]].state \in NonTerminal

\* C17: while a session is in its loop every response so far was non-terminal
\* and was followed by one sleep, so the first check has no sleep before it;
\* once a response is terminal the attempt has made one check more than
\* sleeps, makes no further check, and acts on that state: the fetch after
\* SUCCEEDED, the Athena error with that state after FAILED or CANCELLED.  A
\* QUEUED or RUNNING response is never acted upon.
C17_StopAtFirstTerminal ==
    /\ [](\A s \in Sessions :
            /\ pc[s] = "poll" =>
                  /\ sleeps[s] = polls[s]
                  /\ polls[s] > 0 => status[s] \in NonTerminal
            /\ status[s] \in Terminal =>
                  /\ pc[s] \in {"fetch", "display"}
                  /\ polls[s] = Min(sleeps[s] + 1, MaxPolls)
            /\ status[s] = "SUCCEEDED" =>
                  (pc[s] = "fetch" \/ Count(log[s], "fetch") = 1)
            /\ status[s] \in {"FAILED", "CANCELLED"} =>
                  /\ Len(msgs[s]) = 3
                  /\ msgs[s][1] = "Erreur Athena"
                  /\ msgs[s][2] = status[s]
            /\ status[s] \in NonTerminal =>
                  \/ pc[s] = "poll"
                  \/ /\ pc[s] = "display"
                     /\ msgs[s] = <<"Erreur Technique", "ClientError">>
                     /\ polls[s] = Min(sleeps[s] + 1, MaxPolls))
    /\ [][\A s \in Sessions :
             /\ status[s] \in Terminal =>
                   /\ polls'[s] \in {polls[s], 0}
                   /\ sleeps'[s] \in {sleeps[s], 0}
                   /\ requested'[s].status \in {requested[s].status, 0}
             /\ sleeps'[s] > sleeps[s] =>
                   /\ status'[s] \in NonTerminal
                   /\ requested'[s].status = query_id[s]
                   /\ pc'[s] = "poll"]_vars

\* one non-terminal response, then CANCELLED: two checks and one sleep
C17_Witness ==
    \E s \in Sessions :
       /\ pc[s] = "display"
       /\ status[s] = "CANCELLED"
       /\ polls[s] = 2
       /\ sleeps[s] = 1

\* C18: a run in which load_data returned a frame without rows ends without
\* clearing the cache and without showing the button, also when the run was
\* started by the button; every step that clears the cache is the end of a
\* run that was started by the button and got rows.
C18_NoRefreshOnEmpty ==
    /\ [][\A s \in Sessions :
             (pc[s] = "display" /\ Len(df[s].rows) = 0 /\ pc'[s] = "idle") =>
                /\ cache' = cache
                /\ afterClear' = afterClear
                /\ firstServed' = firstServed
                /\ ~buttonShown'[s]]_vars
    /\ [][((cache # NoEntry /\ cache' = NoEntry) \/ (afterClear' /\ ~afterClear))
             => \E s \in Sessions :
                   /\ pc[s] = "display" /\ pc'[s] = "idle"
                   /\ clicked[s]
                   /\ Len(df[s].rows) > 0]_vars
    /\ [](\A s \in Sessions :
            (pc[s] = "idle" /\ ~buttonShown[s]) => ~clicked[s])

\* a run started by the button is served the empty frame that is in the cache
C18_Witness ==
    \E s \in Sessions :
       /\ pc[s] = "display"
       /\ clicked[s]
       /\ log[s] = <<>>
       /\ cache # NoEntry
       /\ df[s] = cache.value
       /\ Len(df[s].rows) = 0

\* C19: a run started by the button while the entry is valid is served that
\* entry and makes no submission; the cache is cleared in the last step of
\* that run, which starts no execution and leaves the session idle; an
\* execution is only ever started by a step in which a session calls
\* load_data, so the fresh cycle waits for the next run of some session.
C19_RefreshOneRunLate ==
    /\ [][\A s \in Sessions :
             (Called(s) /\ clicked'[s] /\ Fresh) =>
                /\ pc'[s] = "display"
                /\ df'[s] = cache.value
                /\ cache' = cache
                /\ submitted' = submitted
                /\ jobs' = jobs
                /\ log'[s] = <<>>]_vars
    /\ [][(afterClear' /\ ~afterClear) =>
             /\ cache' = NoEntry
             /\ submitted' = submitted
             /\ jobs' = jobs
             /\ \E s \in Sessions :
                   /\ clicked[s]
                   /\ pc[s] = "display" /\ pc'[s] = "idle"
                   /\ log'[s] = <<>>]_vars
    /\ [][submitted' # submitted => \E s \in Sessions : Called(s)]_vars

\* the run started by the button shows the rows of the valid entry, which is
\* still in the cache, and has made no remote call
C19_Witness ==
    \E s \in Sessions :
       /\ pc[s] = "display"
       /\ clicked[s]
       /\ log[s] = <<>>
       /\ Fresh
       /\ df[s] = cache.value
       /\ Len(df[s].rows) > 0

====
